---- MODULE Spec2Model ----
(***************************************************************************)
(* Model of the Atlas SDK client: the credential manager                   *)
(* (wattslab_atlas/auth.py, AuthManager) and the API facade                *)
(* (wattslab_atlas/client.py, AtlasClient).                                *)
(*                                                                         *)
(* Every public method is one action.  The server and the transport are    *)
(* the environment: each action draws the responses it receives from a     *)
(* small set.  The client is used from one thread of control: a call is    *)
(* made when the previous one has returned.  `call` and `trace` hold the   *)
(* call that has just ended, its outcome and the HTTP and storage events   *)
(* it caused, in program order, until the caller takes the outcome         *)
(* (Return).                                                               *)
(***************************************************************************)
EXTENDS Integers, Sequences, FiniteSets, TLC

VARIABLES
    jwt_token,        \* AuthManager.jwt_token
    email,            \* AuthManager.email
    token_expiry,     \* AuthManager.token_expiry
    cookies,          \* AuthManager.cookies, a set of <<name, value>> pairs
    storage,          \* AuthManager.storage
    store,            \* the persisted tokens: email -> [token, expires_at]
    auto_save_token,  \* the constructor argument of AtlasClient
    now,              \* wall clock, seconds
    call,             \* the call that has just ended, and its outcome
    trace,            \* the HTTP requests and storage operations of that call
    logged_out,       \* the call before it was a logout the server accepted
    token_owner       \* the email under which jwt_token was persisted or adopted

vars == <<jwt_token, email, token_expiry, cookies, storage, store,
          auto_save_token, now, call, trace, logged_out, token_owner>>

mem == <<jwt_token, email, cookies>>

----------------------------------------------------------------------------
(* Values *)

None == "None"
NoTime == 0 - 1

\* Python truthiness of an Optional[str]: None and "" are falsy
Truthy(x) == x # None /\ x # ""

Emails == {"a", "b"}
\* what a caller may pass as an email: an address or the empty string
EmailArgs == Emails \cup {""}
\* validate_magic_link's email argument is optional
OptEmails == EmailArgs \cup {None}
Tokens == {"t1", "t2"}

\* the clock advances in steps of one day, MaxTicks times at most
MaxTicks == 1
TickSeconds == 24 * 3600

\* HTTP statuses the server may answer with
Statuses == {200, 204, 400, 401, 404, 500}

\* A response: exc = the transport raised instead of answering; json_ok = the
\* body parses as JSON; jwt = the value of the "jwt" cookie of the response
\* (None when the response sets no such cookie).
Resp(x, s, j, c) == [exc |-> x, status |-> s, json_ok |-> j, jwt |-> c]
TransportError == Resp(TRUE, 0, FALSE, None)
ProbeResponses == {TransportError}
                  \cup {Resp(FALSE, s, TRUE, None) : s \in Statuses}
PlainResponses == {TransportError}
                  \cup {Resp(FALSE, s, j, None) : s \in Statuses, j \in BOOLEAN}
CookieResponses == {TransportError}
                   \cup {Resp(FALSE, s, j, c) : s \in Statuses, j \in BOOLEAN,
                                               c \in Tokens \cup {None, ""}}
FacadeResponses == {TransportError}
                   \cup {Resp(FALSE, s, TRUE, None) : s \in Statuses}

----------------------------------------------------------------------------
(* Events of a call *)

NoCookies == {}
JwtCookie(t) == {<<"jwt", t>>}

\* an HTTP request: what was sent, what came back (set_jwt: the "jwt" cookie
\* of the response), and at the time it was sent the manager's token and the
\* emails with a persisted token
HttpEv(ep, ck, resp, tok, disk) ==
    [ev |-> ep, key |-> None, cookies |-> ck, exc |-> resp.exc,
     status |-> resp.status, set_jwt |-> resp.jwt, jwt |-> tok,
     expires_in |-> 0, held |-> DOMAIN disk]

\* a call of the token storage: the key, the token read or written, and the
\* emails with a persisted token as the call leaves the store
StoreEv(name, k, tok, expires_in, disk) ==
    [ev |-> name, key |-> k, cookies |-> NoCookies, exc |-> FALSE,
     status |-> 0, set_jwt |-> None, jwt |-> tok,
     expires_in |-> expires_in, held |-> DOMAIN disk]

\* a call and how it ended; ret: the cookies or headers an accessor returned
CallRet(op, e, flag, outcome, value, code, ret) ==
    [op |-> op, email |-> e, flag |-> flag, outcome |-> outcome,
     value |-> value, code |-> code, ret |-> ret]
Call(op, e, flag, outcome, value, code) ==
    CallRet(op, e, flag, outcome, value, code, NoCookies)
NoCall == Call("none", None, FALSE, "none", "", 0)

Events(name) == {i \in 1..Len(trace) : trace[i].ev = name}

----------------------------------------------------------------------------
(* Token storage (wattslab_atlas/storage.py: get / save / delete) *)

get_token(st, e, t) ==
    IF e \in DOMAIN st /\ t < st[e].expires_at THEN st[e].token ELSE None

save_token(st, e, tok, expires_in, t) ==
    [k \in DOMAIN st \cup {e} |->
        IF k = e THEN [token |-> tok, expires_at |-> t + expires_in] ELSE st[k]]

delete_token(st, e) == [k \in DOMAIN st \ {e} |-> st[k]]

----------------------------------------------------------------------------
(* Construction *)

\* AtlasClient.__init__: storage = TokenStorage() if auto_save_token else None
ClientStorage(auto) == IF auto THEN "TokenStorage" ELSE None

\* AuthManager.__init__: self.storage = storage or TokenStorage()
ManagerStorage(arg) == IF arg # None THEN arg ELSE "TokenStorage"

\* the persisted store outlives the process: tokens of earlier runs may be
\* in it, expired already (expires_at = 0) or about to expire
InitEntries == {[token |-> t, expires_at |-> x] :
                    t \in Tokens, x \in {0, TickSeconds}}
InitStores == UNION {[D -> InitEntries] : D \in SUBSET Emails}

Init ==
    /\ auto_save_token \in BOOLEAN
    /\ storage = ManagerStorage(ClientStorage(auto_save_token))
    /\ store \in InitStores
    /\ jwt_token = None
    /\ email = None
    /\ token_expiry = NoTime
    /\ cookies = NoCookies
    /\ now = 0
    /\ call = NoCall
    /\ trace = <<>>
    /\ logged_out = FALSE
    /\ token_owner = None

\* no call is in progress or waiting to be taken
Idle == call = NoCall

Tick ==
    /\ Idle
    /\ now < MaxTicks * TickSeconds
    /\ now' = now + TickSeconds
    /\ UNCHANGED <<jwt_token, email, token_expiry, cookies, storage, store,
                   auto_save_token, call, trace, logged_out, token_owner>>

\* the caller takes the outcome of the call that ended
Return ==
    /\ ~Idle
    /\ call' = NoCall
    /\ trace' = <<>>
    /\ logged_out' = (call.op = "logout" /\ call.flag)
    /\ UNCHANGED <<jwt_token, email, token_expiry, cookies, storage, store,
                   auto_save_token, now, token_owner>>

----------------------------------------------------------------------------
(* AuthManager *)

\* requests.Response.raise_for_status: HTTPError for a 4xx or 5xx status
RaisesHTTPError(resp) == resp.status >= 400

\* check_auth without its try/except: a transport error propagates
check_auth_raises(tok, resp) ==
    IF ~Truthy(tok) THEN <<"return", FALSE>>
    ELSE IF resp.exc THEN <<"RequestException", FALSE>>
    ELSE <<"return", resp.status = 200>>

\* check_auth with its guard on the held token inverted
check_auth_inverted(tok, resp) ==
    IF Truthy(tok) THEN <<"return", FALSE>>
    ELSE IF resp.exc THEN <<"return", FALSE>>
    ELSE <<"return", resp.status = 200>>

\* AuthManager.check_auth: <<how it ends, the value it returns>> ...
check_auth(tok, resp) ==
    IF ~Truthy(tok) THEN <<"return", FALSE>>
    ELSE IF resp.exc THEN <<"return", FALSE>>
    ELSE <<"return", resp.status = 200>>

\* ... and the request it issues
check_auth_events(tok, ck, resp, disk) ==
    IF ~Truthy(tok) THEN <<>>
    ELSE <<HttpEv("GET /check", ck, resp, tok, disk)>>

\* login, lines 36-38: the stored token login looks at
LoginStored(st, e, use, t) == IF use THEN get_token(st, e, t) ELSE None

\* login that leaves the rejected token in the store
LoginDiscardKeeps(st, e) == st

\* login, line 49: the stored token is removed once the probe rejects it
LoginDiscard(st, e) == delete_token(st, e)

\* login, lines 54-66: the outcome of POST /login
LoginOutcome(resp) ==
    IF resp.exc \/ RaisesHTTPError(resp) \/ ~resp.json_ok
    THEN <<"AuthenticationError", "Login failed">>
    ELSE <<"return", "Magic link sent">>

\* the response to a request is drawn when the request is sent
Answer(sent, responses) == IF sent THEN responses ELSE {TransportError}

Login(e, use) ==
    /\ Idle
    /\ LET stored == LoginStored(store, e, use, now)
           adopt  == use /\ Truthy(stored)
       IN  \E probe \in Answer(adopt, ProbeResponses) :
           LET ok == adopt /\ check_auth(stored, probe)[2] IN
           \E resp \in Answer(~ok, PlainResponses) :
           LET discard == adopt /\ ~ok
               store1  == IF discard THEN LoginDiscard(store, e) ELSE store
               jwt1    == IF adopt THEN (IF ok THEN stored ELSE None) ELSE jwt_token
               ck1     == IF adopt
                          THEN (IF ok THEN JwtCookie(stored) ELSE NoCookies)
                          ELSE cookies
               evGet   == IF use
                          THEN <<StoreEv("storage.get", e, stored, 0, store)>>
                          ELSE <<>>
               evProbe == IF adopt
                          THEN check_auth_events(stored, JwtCookie(stored), probe,
                                                 store)
                          ELSE <<>>
               evDel   == IF discard
                          THEN <<StoreEv("storage.delete", e, None, 0, store1)>>
                          ELSE <<>>
               evPost  == IF ok THEN <<>>
                          ELSE <<HttpEv("POST /login", NoCookies, resp, jwt1,
                                        store1)>>
               out     == IF ok THEN <<"return", "Using stored credentials">>
                          ELSE LoginOutcome(resp)
           IN  /\ email' = e
               /\ jwt_token' = jwt1
               /\ cookies' = ck1
               /\ store' = store1
               /\ trace' = evGet \o evProbe \o evDel \o evPost
               /\ call' = Call("login", e, use, out[1], out[2], 0)
               /\ token_owner' = IF adopt THEN (IF ok THEN e ELSE None)
                                 ELSE token_owner
               /\ UNCHANGED <<token_expiry, storage, auto_save_token, now,
                              logged_out>>

\* validate_magic_link, line 82: use_email = email or self.email
UseEmail(e, held) == IF Truthy(e) THEN e ELSE held

\* validate_magic_link without its guards on the email
ValidateNeedsEmailNever(e, held) == FALSE

\* validate_magic_link, lines 79-84: no email is known, and the call raises
ValidateNeedsEmail(e, held) ==
    \/ ~Truthy(e) /\ ~Truthy(held)
    \/ ~Truthy(UseEmail(e, held))

\* validate_magic_link, line 100: timedelta(hours=48)
SessionSeconds == 48 * 3600

\* a token saved for one day only
ExpiresInOneDay == 24 * 3600

\* validate_magic_link, line 103: expires_in=172800
ExpiresIn == 172800

\* validate_magic_link, lines 95-97: the session token of the response
ResponseJwt(resp) == IF Truthy(resp.jwt) THEN resp.jwt ELSE None

\* validate_magic_link without the branch of line 109 for a 400
ValidateOutcomeNo400(resp) ==
    IF resp.exc \/ RaisesHTTPError(resp) \/ ~resp.json_ok
    THEN <<"AuthenticationError", "Validation failed">>
    ELSE <<"return", "Validated">>

\* validate_magic_link, lines 86-113: the outcome of POST /validate
ValidateOutcome(resp) ==
    IF resp.exc THEN <<"AuthenticationError", "Validation failed">>
    ELSE IF RaisesHTTPError(resp)
    THEN IF resp.status = 400
         THEN <<"AuthenticationError", "Invalid or expired magic link">>
         ELSE <<"AuthenticationError", "Validation failed">>
    ELSE IF ~resp.json_ok THEN <<"AuthenticationError", "Validation failed">>
    ELSE <<"return", "Validated">>

\* validate_magic_link, line 103: the token is saved under use_email
ValidateSave(st, use_email, tok, t) == save_token(st, use_email, tok, ExpiresIn, t)

ValidateMagicLink(e) ==
    /\ Idle
    /\ LET use_email == UseEmail(e, email)
           known     == ~ValidateNeedsEmail(e, email)
       IN
       \E resp \in Answer(known, CookieResponses) :
       LET out    == IF ~known
                     THEN <<"AuthenticationError", "Email is required for validation">>
                     ELSE ValidateOutcome(resp)
           tok    == IF out[1] = "return" THEN ResponseJwt(resp) ELSE None
           store1 == IF tok # None THEN ValidateSave(store, use_email, tok, now)
                     ELSE store
           evPost == IF ~known THEN <<>>
                     ELSE <<HttpEv("POST /validate", NoCookies, resp, jwt_token,
                                   store)>>
           evSave == IF tok = None THEN <<>>
                     ELSE <<StoreEv("storage.save", use_email, tok, ExpiresIn,
                                    store1)>>
       IN  /\ jwt_token' = IF tok # None THEN tok ELSE jwt_token
           /\ cookies' = IF tok # None THEN JwtCookie(tok) ELSE cookies
           /\ token_expiry' = IF tok # None THEN now + SessionSeconds
                              ELSE token_expiry
           /\ store' = store1
           /\ trace' = evPost \o evSave
           /\ call' = Call("validate_magic_link", e, FALSE, out[1], out[2], 0)
           /\ token_owner' = IF tok # None THEN use_email ELSE token_owner
           /\ UNCHANGED <<email, storage, auto_save_token, now, logged_out>>

\* check_auth that drops the token once the probe rejects it
CheckAuthDropsToken(tok, ok) == IF ok THEN tok ELSE None

\* check_auth, lines 122-129: it assigns nothing, the token held stays
CheckAuthToken(tok, ok) == tok

CheckAuth ==
    /\ Idle
    /\ \E resp \in Answer(Truthy(jwt_token), ProbeResponses) :
           /\ trace' = check_auth_events(jwt_token, cookies, resp, store)
           /\ call' = Call("check_auth", None, check_auth(jwt_token, resp)[2],
                           check_auth(jwt_token, resp)[1], "", 0)
           /\ jwt_token' = CheckAuthToken(jwt_token,
                                          check_auth(jwt_token, resp)[2])
           /\ UNCHANGED <<email, token_expiry, cookies, storage, store,
                          auto_save_token, now, logged_out, token_owner>>

\* logout that takes 200 alone for success
LogoutAcceptedOnly200(resp) == ~resp.exc /\ resp.status = 200

\* logout, lines 134-135: whether the server accepted the logout
LogoutAccepted(resp) == ~resp.exc /\ ~RaisesHTTPError(resp)

\* logout, lines 138-139: the persisted token that logout removes
LogoutDelete(st, held) == IF Truthy(held) THEN delete_token(st, held) ELSE st

\* logout, lines 133-150: response.json() is read after the session is cleared
LogoutOutcome(resp) ==
    IF LogoutAccepted(resp) /\ resp.json_ok
    THEN <<"return", "Logged out">>
    ELSE <<"AuthenticationError", "Logout failed">>

Logout ==
    /\ Idle
    /\ \E resp \in PlainResponses :
       LET acc    == LogoutAccepted(resp)
           store1 == IF acc THEN LogoutDelete(store, email) ELSE store
           out    == LogoutOutcome(resp)
           evPost == <<HttpEv("POST /logout", cookies, resp, jwt_token, store)>>
           evDel  == IF acc /\ Truthy(email)
                     THEN <<StoreEv("storage.delete", email, None, 0, store1)>>
                     ELSE <<>>
       IN  /\ store' = store1
           /\ jwt_token' = IF acc THEN None ELSE jwt_token
           /\ email' = IF acc THEN None ELSE email
           /\ cookies' = IF acc THEN NoCookies ELSE cookies
           /\ trace' = evPost \o evDel
           /\ call' = Call("logout", None, acc, out[1], out[2], 0)
           /\ token_owner' = IF acc THEN None ELSE token_owner
           /\ UNCHANGED <<token_expiry, storage, auto_save_token, now,
                          logged_out>>

\* get_cookies that builds the cookie from the token, held or not
get_cookies_from_token == JwtCookie(jwt_token)

\* AuthManager.get_cookies
get_cookies == cookies

\* AuthManager.get_headers
get_headers == {}

GetCookies ==
    /\ Idle
    /\ trace' = <<>>
    /\ call' = CallRet("get_cookies", None, FALSE, "return", "", 0, get_cookies)
    /\ UNCHANGED <<jwt_token, email, token_expiry, cookies, storage, store,
                   auto_save_token, now, logged_out, token_owner>>

GetHeaders ==
    /\ Idle
    /\ trace' = <<>>
    /\ call' = CallRet("get_headers", None, FALSE, "return", "", 0, get_headers)
    /\ UNCHANGED <<jwt_token, email, token_expiry, cookies, storage, store,
                   auto_save_token, now, logged_out, token_owner>>

----------------------------------------------------------------------------
(* AtlasClient *)

\* the facade methods and the request each of them makes
FacadeOps == {
    <<"list_features", "GET /features">>,
    <<"create_feature", "POST /features">>,
    <<"delete_feature", "DELETE /features/{id}">>,
    <<"list_papers", "GET /user/papers">>,
    <<"check_task_status", "GET /add_paper">>,
    <<"reprocess_paper", "POST /reprocess_paper/{id}">>,
    <<"get_project_features", "GET /projects/{id}/features">>,
    <<"update_project_features", "POST /projects/{id}/features">>,
    <<"remove_project_features", "DELETE /projects/{id}/features">>,
    <<"reprocess_project", "POST /reprocess_project/{id}">> }

\* _request with the last comparison off by one: a 400 passes as a success
RequestOutcomeOffByOne(resp) ==
    IF resp.exc THEN <<"RequestException", 0>>
    ELSE IF resp.status = 401 THEN <<"APIError", 401>>
    ELSE IF resp.status = 404 THEN <<"ResourceNotFoundError", 0>>
    ELSE IF resp.status > 400 THEN <<"APIError", resp.status>>
    ELSE <<"return", resp.status>>

\* AtlasClient._request, lines 100-109: what a response surfaces as;
\* <<outcome, status code carried by the error>>
RequestOutcome(resp) ==
    IF resp.exc THEN <<"RequestException", 0>>
    ELSE IF resp.status = 401 THEN <<"APIError", 401>>
    ELSE IF resp.status = 404 THEN <<"ResourceNotFoundError", 0>>
    ELSE IF resp.status >= 400 THEN <<"APIError", resp.status>>
    ELSE <<"return", resp.status>>

\* _request that sends the request again after a server error
RequestEventsRetry(ep, resp) ==
    IF ~resp.exc /\ resp.status >= 500
    THEN <<HttpEv(ep, get_cookies, resp, jwt_token, store),
           HttpEv(ep, get_cookies, resp, jwt_token, store)>>
    ELSE <<HttpEv(ep, get_cookies, resp, jwt_token, store)>>

\* AtlasClient._request, lines 94-100: the request it sends
RequestEvents(ep, resp) == <<HttpEv(ep, get_cookies, resp, jwt_token, store)>>

Facade(op) ==
    /\ Idle
    /\ \E resp \in FacadeResponses :
       LET out == RequestOutcome(resp) IN
           /\ trace' = RequestEvents(op[2], resp)
           /\ call' = Call(op[1], None, FALSE, out[1], "", out[2])
           /\ UNCHANGED <<jwt_token, email, token_expiry, cookies, storage, store,
                          auto_save_token, now, logged_out,
                          token_owner>>

ProjectIds == {"p1", "p2"}
StrategyTypes == {"assistant_api", "other"}

\* upload_paper without the check of the path
UploadAlwaysRequests(exists) == TRUE

\* upload_paper, lines 215-217: path.exists() decides before any request
UploadReachesRequest(exists) == exists

UploadPaper(project_id, exists, strategy_type) ==
    /\ Idle
    /\ LET sent == UploadReachesRequest(exists) IN
       \E resp \in Answer(sent, FacadeResponses) :
       LET out == IF sent THEN RequestOutcome(resp) ELSE <<"ValidationError", 0>> IN
           /\ trace' = IF sent THEN RequestEvents("POST /add_paper", resp) ELSE <<>>
           /\ call' = Call("upload_paper", project_id, exists, out[1],
                           strategy_type, out[2])
           /\ UNCHANGED <<jwt_token, email, token_expiry, cookies, storage, store,
                          auto_save_token, now, logged_out,
                          token_owner>>

----------------------------------------------------------------------------
Next ==
    \/ Tick
    \/ Return
    \/ \E e \in EmailArgs, use \in BOOLEAN : Login(e, use)
    \/ \E e \in OptEmails : ValidateMagicLink(e)
    \/ CheckAuth
    \/ Logout
    \/ GetCookies
    \/ GetHeaders
    \/ \E op \in FacadeOps : Facade(op)
    \/ \E p \in ProjectIds, x \in BOOLEAN, st \in StrategyTypes :
          UploadPaper(p, x, st)

Spec == Init /\ [][Next]_vars

----------------------------------------------------------------------------
(* Properties *)

FacadeNames == {op[1] : op \in FacadeOps} \cup {"upload_paper"}

\* the call that just ended is a facade call that the server answered
FacadeAnswered ==
    /\ call.op \in FacadeNames
    /\ Len(trace) = 1
    /\ ~trace[1].exc

\* C1 as stated: for every facade call and every status the server returns,
\* 401 surfaces as AuthenticationError, 404 as ResourceNotFoundError, any
\* other status >= 400 as APIError carrying that status, and a status < 400
\* raises nothing.
C1_AsStated ==
    FacadeAnswered =>
        LET st == trace[1].status IN
        /\ st = 401 => call.outcome = "AuthenticationError"
        /\ st = 404 => call.outcome = "ResourceNotFoundError"
        /\ (st >= 400 /\ st # 401 /\ st # 404) =>
               (call.outcome = "APIError" /\ call.code = st)
        /\ st < 400 => call.outcome = "return"

\* C1 amended: for every facade call and every status the server returns,
\* 404 surfaces as ResourceNotFoundError, every other status >= 400, 401
\* included, surfaces as APIError carrying that status, and a status < 400
\* raises nothing and returns the response.
C1_StatusMapping ==
    FacadeAnswered =>
        LET st == trace[1].status IN
        /\ st = 404 => call.outcome = "ResourceNotFoundError"
        /\ (st >= 400 /\ st # 404) =>
               (call.outcome = "APIError" /\ call.code = st)
        /\ st < 400 => (call.outcome = "return" /\ call.code = st)

C1_Witness ==
    /\ FacadeAnswered
    /\ trace[1].status = 401
    /\ call.outcome = "APIError"
    /\ call.code = 401

\* the call that just ended is a login that found a persisted token and
\* probed the server with it
LoginProbed ==
    /\ call.op = "login"
    /\ call.flag
    /\ Len(trace) >= 2
    /\ trace[1].ev = "storage.get"
    /\ Truthy(trace[1].jwt)
    /\ trace[2].ev = "GET /check"

ProbeAccepted == ~trace[2].exc /\ trace[2].status = 200

\* C2: when the email has a persisted token that the probe GET /check accepts
\* with 200, login(email, use_stored_token=True) returns "Using stored
\* credentials", sends no POST /login, holds the stored token as session
\* token and cookie, and the persisted token is still in the store.
C2_StoredLogin ==
    (LoginProbed /\ ProbeAccepted) =>
        /\ call.outcome = "return"
        /\ call.value = "Using stored credentials"
        /\ Events("POST /login") = {}
        /\ jwt_token = trace[1].jwt
        /\ cookies = JwtCookie(trace[1].jwt)
        /\ trace[2].cookies = JwtCookie(trace[1].jwt)
        /\ call.email \in DOMAIN store
        /\ store[call.email].token = trace[1].jwt

C2_Witness ==
    /\ LoginProbed
    /\ ProbeAccepted
    /\ call.value = "Using stored credentials"
    /\ jwt_token \in Tokens

\* C3: when the email has a persisted token that the probe rejects (no 200,
\* or no answer), login deletes that email's persisted token and clears the
\* token and cookies in memory, and only then sends POST /login: when that
\* request is sent the token is neither in the store nor in memory.
C3_RejectedLogin ==
    (LoginProbed /\ ~ProbeAccepted) =>
        /\ Len(trace) = 4
        /\ trace[3].ev = "storage.delete"
        /\ trace[3].key = call.email
        /\ trace[4].ev = "POST /login"
        /\ call.email \notin trace[4].held
        /\ trace[4].jwt = None
        /\ trace[4].cookies = NoCookies
        /\ call.email \notin DOMAIN store
        /\ jwt_token = None
        /\ cookies = NoCookies

C3_Witness ==
    /\ LoginProbed
    /\ trace[2].status = 401
    /\ Len(trace) = 4
    /\ trace[4].ev = "POST /login"
    /\ call.outcome = "return"

\* the call that just ended is a validate_magic_link that returned
ValidateReturned ==
    /\ call.op = "validate_magic_link"
    /\ call.outcome = "return"

\* C4 as stated: a validate_magic_link that returns without raising has
\* persisted a session token for the validated email, expiring in exactly 48
\* hours, and the manager holds that token as session token and cookie.
C4_AsStated ==
    ValidateReturned =>
        LET ue == UseEmail(call.email, email) IN
        /\ ue \in DOMAIN store
        /\ store[ue].expires_at = now + 48 * 3600
        /\ Truthy(jwt_token)
        /\ store[ue].token = jwt_token
        /\ cookies = JwtCookie(jwt_token)

\* C4 amended: a validate_magic_link that returns without raising and whose
\* response carries a non-empty jwt cookie has persisted that token for the
\* validated email with expires_in = 172800 s (48 hours from the validation),
\* and the manager holds it as session token and cookie; one whose response
\* carries no jwt cookie has persisted nothing.
C4_ValidatePersists ==
    ValidateReturned =>
        LET ue == UseEmail(call.email, email)
            t  == trace[1].set_jwt
        IN  /\ trace[1].ev = "POST /validate"
            /\ Truthy(t) =>
                  /\ Len(trace) = 2
                  /\ trace[2].ev = "storage.save"
                  /\ trace[2].key = ue
                  /\ trace[2].expires_in = 172800
                  /\ ue \in DOMAIN store
                  /\ store[ue] = [token |-> t, expires_at |-> now + 172800]
                  /\ token_expiry = now + 172800
                  /\ jwt_token = t
                  /\ cookies = JwtCookie(t)
            /\ ~Truthy(t) => Events("storage.save") = {}

C4_Witness ==
    /\ ValidateReturned
    /\ trace[1].set_jwt \in Tokens
    /\ now > 0
    /\ jwt_token = trace[1].set_jwt
    /\ UseEmail(call.email, email) \in DOMAIN store

Cleared == jwt_token = None /\ email = None /\ cookies = NoCookies

\* C5 as stated: a logout that succeeds leaves no persisted token for the
\* email under which the session's token was persisted or adopted, and
\* leaves the in-memory session (token, email, cookies) empty.
C5_AsStated ==
    [][(call'.op = "logout" /\ call'.outcome = "return") =>
          /\ Cleared'
          /\ Truthy(token_owner) => token_owner \notin DOMAIN store']_vars

\* the server accepted the logout that just ended
LogoutDone ==
    /\ call.op = "logout"
    /\ ~trace[1].exc
    /\ trace[1].status < 400

\* C6 as stated: logout clears the in-memory session in every state it is
\* called from, whatever the server answers.
C6_AsStated == [][call'.op = "logout" => Cleared']_vars

\* C6 amended: every logout the server accepts (no transport error, status
\* below 400) clears the in-memory session, also when no token was held; and
\* an accepted logout that follows an accepted logout changes nothing.
C6_LogoutClears ==
    [][LogoutDone' =>
          /\ Cleared'
          /\ logged_out => UNCHANGED <<jwt_token, email, cookies, store>>]_vars

C6_Witness ==
    /\ logged_out
    /\ LogoutDone
    /\ trace[1].jwt = None
    /\ Cleared

\* C7 as stated: with auto_save_token = False no call saves a token to the
\* persistent store, and login adopts no token from it.
C7_AsStated ==
    ~auto_save_token =>
        /\ Events("storage.save") = {}
        /\ ~(call.op = "login" /\ call.value = "Using stored credentials")

\* C8: when the manager holds no email, validate_magic_link called without
\* an email fails with AuthenticationError, sends no request, and leaves the
\* in-memory session and the persisted store unchanged.
C8_ValidateWithoutEmail ==
    [][(email = None /\ call'.op = "validate_magic_link"
                     /\ call'.email = None) =>
          /\ call'.outcome = "AuthenticationError"
          /\ trace' = <<>>
          /\ UNCHANGED <<jwt_token, email, cookies, token_expiry, store>>]_vars

C8_Witness ==
    /\ call.op = "validate_magic_link"
    /\ call.email = None
    /\ email = None
    /\ logged_out
    /\ call.outcome = "AuthenticationError"
    /\ call.value = "Email is required for validation"
    /\ trace = <<>>

\* C9: check_auth never raises; holding no token it returns false and sends
\* nothing; otherwise it sends one GET /check with the session cookies and
\* returns true exactly when the answer is a 200 (false for any other status
\* and for a transport error).
C9_CheckAuth ==
    call.op = "check_auth" =>
        /\ call.outcome = "return"
        /\ ~Truthy(jwt_token) => (trace = <<>> /\ call.flag = FALSE)
        /\ Truthy(jwt_token) =>
              /\ Len(trace) = 1
              /\ trace[1].ev = "GET /check"
              /\ trace[1].cookies = cookies
              /\ call.flag = (~trace[1].exc /\ trace[1].status = 200)

C9_Witness ==
    /\ call.op = "check_auth"
    /\ Truthy(jwt_token)
    /\ Len(trace) = 1
    /\ trace[1].exc
    /\ call.outcome = "return"
    /\ call.flag = FALSE

\* C10: upload_paper with a path that does not exist fails with
\* ValidationError and sends no request, whatever the project id, the
\* strategy type and the session.
C10_UploadMissingFile ==
    (call.op = "upload_paper" /\ ~call.flag) =>
        /\ call.outcome = "ValidationError"
        /\ trace = <<>>

C10_Witness ==
    /\ call.op = "upload_paper"
    /\ ~call.flag
    /\ Truthy(jwt_token)
    /\ call.email = "p2"
    /\ call.value = "other"
    /\ call.outcome = "ValidationError"
    /\ trace = <<>>

\* the cookies that go with the session token held
SessionCookies(tok) == IF Truthy(tok) THEN JwtCookie(tok) ELSE NoCookies

\* C11: in every reachable state get_cookies returns exactly {jwt: session
\* token} when a token is held and the empty set when none is held,
\* get_headers returns empty when no token is held, and neither accessor
\* changes the session or the store.
C11_Accessors ==
    [][/\ cookies = SessionCookies(jwt_token)
       /\ cookies' = SessionCookies(jwt_token')
       /\ call'.op = "get_cookies" =>
             /\ call'.ret = SessionCookies(jwt_token)
             /\ UNCHANGED <<jwt_token, email, cookies, token_expiry, store>>
       /\ call'.op = "get_headers" =>
             /\ ~Truthy(jwt_token) => call'.ret = {}
             /\ UNCHANGED <<jwt_token, email, cookies, token_expiry, store>>]_vars

C11_Witness ==
    /\ call.op = "get_cookies"
    /\ jwt_token \in Tokens
    /\ call.ret = JwtCookie(jwt_token)

AuthOps == {"login", "validate_magic_link", "logout"}

\* the call that just ended is a credential-manager call that raised
\* AuthenticationError
AuthFailed == call.op \in AuthOps /\ call.outcome = "AuthenticationError"

\* the store st without the entry of e
Without(st, e) == [k \in DOMAIN st \ {e} |-> st[k]]

\* C12 as stated: whenever login, validate_magic_link or logout fails with
\* AuthenticationError, the in-memory session (token, email, cookies) and
\* the persisted store are as before the call.
C12_AsStated ==
    [][AuthFailed' => UNCHANGED <<jwt_token, email, cookies, store>>]_vars

\* C12 amended: a validate_magic_link that fails with AuthenticationError,
\* and a logout that fails because its request was not accepted, leave the
\* session and the store as before the call.  A login that fails leaves the
\* manager holding the email it was given; if it had found a stored token
\* that the probe rejected, that token is deleted and the session token and
\* cookies are cleared, and otherwise token, cookies and store are as before.
\* A logout that fails on the body of an accepted response has cleared the
\* session and deleted the token of the held email.
C12_FailureEffects ==
    [][AuthFailed' =>
          /\ call'.op = "validate_magic_link" =>
                UNCHANGED <<jwt_token, email, cookies, store>>
          /\ (call'.op = "logout" /\ ~LogoutDone') =>
                UNCHANGED <<jwt_token, email, cookies, store>>
          /\ (call'.op = "logout" /\ LogoutDone') =>
                (Cleared' /\ store' = Without(store, email))
          /\ call'.op = "login" =>
                /\ email' = call'.email
                /\ LoginProbed' =>
                      /\ jwt_token' = None
                      /\ cookies' = NoCookies
                      /\ store' = Without(store, call'.email)
                /\ ~LoginProbed' => UNCHANGED <<jwt_token, cookies, store>>]_vars

C12_Witness ==
    /\ AuthFailed
    /\ call.op = "login"
    /\ LoginProbed
    /\ trace[2].status = 401
    /\ trace[4].status = 500
    /\ email = call.email
    /\ jwt_token = None

\* the request that the credential-manager call just ended rests on (the
\* POST; the probe of login comes before it and its failure is swallowed)
LastRequest == trace[Len(trace)]

\* that request met a transport error or a non-success status
RequestFailed ==
    /\ call.op \in AuthOps
    /\ trace # <<>>
    /\ LastRequest.ev \in {"POST /login", "POST /validate", "POST /logout"}
    /\ (LastRequest.exc \/ LastRequest.status >= 400)

\* C13: every failure of login, validate_magic_link or logout caused by a
\* transport error or a non-success HTTP response surfaces as
\* AuthenticationError, and these calls surface no other error type; a 400
\* answered to validate_magic_link surfaces as AuthenticationError reporting
\* an invalid or expired magic link.
C13_AuthErrors ==
    /\ call.op \in AuthOps => call.outcome \in {"return", "AuthenticationError"}
    /\ RequestFailed =>
          /\ call.outcome = "AuthenticationError"
          /\ (call.op = "validate_magic_link" /\ ~LastRequest.exc
                  /\ LastRequest.status = 400) =>
                call.value = "Invalid or expired magic link"

C13_Witness ==
    /\ RequestFailed
    /\ call.op = "validate_magic_link"
    /\ LastRequest.status = 400
    /\ call.outcome = "AuthenticationError"
    /\ call.value = "Invalid or expired magic link"

\* C14 as stated: the session token goes from absent to held only by a
\* validate_magic_link that succeeds or by a login adopting a persisted
\* token, and from held to absent only by a logout that succeeds or by a
\* login whose adopted stored token the probe rejects; no facade call and
\* no check_auth call creates or destroys the session.
C14_AsStated ==
    [][/\ (~Truthy(jwt_token) /\ Truthy(jwt_token')) =>
             \/ call'.op = "validate_magic_link" /\ call'.outcome = "return"
             \/ /\ call'.op = "login"
                /\ call'.outcome = "return"
                /\ call'.value = "Using stored credentials"
       /\ (Truthy(jwt_token) /\ ~Truthy(jwt_token')) =>
             \/ call'.op = "logout" /\ call'.outcome = "return"
             \/ call'.op = "login" /\ LoginProbed' /\ ~ProbeAccepted'
       /\ call'.op \in FacadeNames \cup {"check_auth"} =>
             UNCHANGED <<jwt_token, cookies>>]_vars

\* the call that just ended is a facade call that reached _request
FacadeRequested ==
    /\ call.op \in FacadeNames
    /\ call.op = "upload_paper" => call.flag

\* C15: every facade call that passes its local validation sends exactly one
\* request, whatever the status (no retry), carrying the cookies the manager
\* holds at the time; a facade call right after an accepted logout, or at any
\* time no token is held, carries no session cookie.
C15_OneRequest ==
    FacadeRequested =>
        /\ Len(trace) = 1
        /\ trace[1].cookies = cookies
        /\ trace[1].jwt = jwt_token
        /\ logged_out => trace[1].cookies = NoCookies
        /\ ~Truthy(jwt_token) => trace[1].cookies = NoCookies

C15_Witness ==
    /\ FacadeRequested
    /\ logged_out
    /\ Len(trace) = 1
    /\ trace[1].status = 500
    /\ trace[1].cookies = NoCookies

\* C16 as stated: whenever the manager holds a session token, that token
\* belongs to the email the manager holds: it was adopted from the store
\* entry of that email or issued by a validation for that email.
C16_AsStated == Truthy(jwt_token) => token_owner = email

\* C17: a direct call of check_auth, whatever the probe answers and whatever
\* it returns, leaves token, email, cookies and the persisted store unchanged.
C17_CheckAuthReadOnly ==
    [][call'.op = "check_auth" =>
          UNCHANGED <<jwt_token, email, cookies, token_expiry, store>>]_vars

C17_Witness ==
    /\ call.op = "check_auth"
    /\ Len(trace) = 1
    /\ trace[1].status = 401
    /\ ~call.flag
    /\ jwt_token \in Tokens
    /\ cookies = JwtCookie(jwt_token)
====
